---- MODULE Spec2Model ----
(***************************************************************************)
(* DEV-bot: a Discord bot that polls a token price, mirrors it in the      *)
(* bot's presence and username, and answers the slash commands ping and    *)
(* price.                                                                  *)
(*                                                                         *)
(* One action of the model is one event-loop step of the program: the code *)
(* that runs from the resumption of an awaited call (or from a timer or    *)
(* gateway event) up to the next await.  Node runs such a step without     *)
(* interleaving, so the steps are the atomic units.                        *)
(*                                                                         *)
(* Numbers: a price (usd) is an integer count of 10^-PriceScale dollars, a *)
(* 24h change is an integer count of 10^-ChangeScale percent, a 24h volume *)
(* is a whole number of dollars.  Number.prototype.toFixed is modelled on  *)
(* these decimals; the sample values avoid exact decimal ties, where the   *)
(* binary double decides the rounding.                                     *)
(***************************************************************************)
EXTENDS Integers, Sequences, FiniteSets, TLC

\* ------------------------------------------------------------------ bounds
\* cron triggers plus gateway interactions delivered in one run
MaxEvents == 2
\* length of the command list the registry holds at startup, where the
\* reconciliation is explored on its own (SpecReconcile)
MaxRemote == 3

\* --------------------------------------------------------------- constants
PriceScale == 6
ChangeScale == 3

\* latestDevPrice = null
Null == -1

\* ----------------------------------------------------------------- strings
RECURSIVE Pow10(_)
Pow10(k) == IF k = 0 THEN 1 ELSE 10 * Pow10(k - 1)

RECURSIVE PadLeft(_, _)
\* the decimal digits of n, left-padded with zeros to width w
PadLeft(n, w) == IF w <= 1 THEN ToString(n)
                 ELSE IF n < Pow10(w - 1) THEN "0" \o PadLeft(n, w - 1)
                 ELSE ToString(n)

\* n / 10^f closest to v / 10^scale; of two equally close n the larger
RoundTo(v, scale, f) == (v + (Pow10(scale - f) \div 2)) \div Pow10(scale - f)

RECURSIVE ToFixed(_, _, _)
\* (v / 10^scale).toFixed(f), for f >= 1, scale >= f
ToFixed(v, scale, f) ==
  IF v < 0 THEN "-" \o ToFixed(0 - v, scale, f)
  ELSE LET n == RoundTo(v, scale, f)
       IN  ToString(n \div Pow10(f)) \o "." \o PadLeft(n % Pow10(f), f)

\* ----------------------------------------------------- the price fetcher
\* fetchTokenPrice resolves to a token-data object or to null.  The optional
\* fields usd_24h_vol and usd_24h_change may be missing from the object.
TokenData ==
  { [usd |-> 123450000, usd_24h_vol |-> 1234567, usd_24h_change |-> 2346],
    [usd |-> 1237, usd_24h_change |-> 0 - 1256],
    [usd |-> 1241, usd_24h_vol |-> 987],
    [usd |-> 1241, usd_24h_vol |-> 2500, usd_24h_change |-> 0] }

NoData == [absent |-> TRUE]

FetchResults == TokenData \cup {NoData}

\* tokenData.f || 0
OrZero(t, f) == IF f \in DOMAIN t THEN t[f] ELSE 0

\* ------------------------------------------------------- command descriptors
commandsData ==
  << [name |-> "ping", description |-> "Replies with Pong!"],
     [name |-> "price",
      description |-> "Fetches and displays the current DEV token price."] >>

\* the names a command of the registry may carry; "old" is not a local one
RemoteNames == {"ping", "price", "old"}

\* the command lists the registry may hold when the bot starts: arrays of
\* {id, name}, every command with an id of its own
RemoteLists ==
  UNION { { [i \in 1..n |-> [id |-> i, name |-> f[i]]] :
              f \in [1..n -> RemoteNames] } : n \in 0..MaxRemote }

\* the registries the whole program is explored from (Spec): one that has
\* both local commands, and one with an unused command and a missing one
SampleRegistries ==
  { << [id |-> 1, name |-> "ping"], [id |-> 2, name |-> "price"] >>,
    << [id |-> 1, name |-> "old"], [id |-> 2, name |-> "ping"] >> }

\* the array holds a command of the given name: some(x => x.name === name)
HasName(list, name) == \E i \in 1..Len(list) : list[i].name = name

\* CommandsToDelete with the negation lost: the commands that are local
CommandsToDeleteKnown(existing) ==
  LET Known(command) == HasName(commandsData, command.name)
  IN  SelectSeq(existing, Known)

\* existingCommands.filter(c => !commandsData.some(d => d.name === c.name))
CommandsToDelete(existing) ==
  LET Unused(command) == ~HasName(commandsData, command.name)
  IN  SelectSeq(existing, Unused)

\* commandsData.filter(d => !existingCommands.some(c => c.name === d.name))
NewCommandsToRegister(existing) ==
  LET Missing(data) == ~HasName(existing, data.name)
  IN  SelectSeq(commandsData, Missing)

\* PutBody with only the commands found missing sent
PutBodyNewOnly(existing) == NewCommandsToRegister(existing)

\* the body of the bulk PUT: { body: commandsData }
PutBody(existing) == commandsData

\* ------------------------------------------------------------------- state
VARIABLES
  token,             \* process.env.DISCORD_TOKEN is set
  pc,                \* where main() stands
  exitCode,          \* Null while the process runs, else its exit code
  clientUser,        \* client.user is available
  loginCalls,        \* client.login calls issued
  getCalls,          \* rest.get calls issued
  deleteCalls,       \* ids of the rest.delete calls issued, in order
  putCalls,          \* bodies of the rest.put calls issued, in order
  existingCommands,  \* main's local: the answer of rest.get
  toDelete,          \* main's local: the part of commandsToDelete still to do
  registry,          \* the commands registered on the platform
  failed,            \* the startup step that went wrong, "" if none did
  listenerAttached,  \* client.on("interactionCreate", ...) has run
  scheduled,         \* the tasks given to cron.schedule
  latestDevPrice,    \* the module-level cache
  presence,          \* the activity shown for the bot
  username,          \* client.user.username
  activityTicks,     \* updateDevActivity calls awaiting fetchTokenPrice
  usernameTicks,     \* updateDevUsername calls awaiting fetchTokenPrice
  renames,           \* setUsername calls awaited, by new username
  fetches,           \* fetchTokenPrice calls issued
  events,            \* cron triggers and interactions delivered
  interactions,      \* the interactions delivered to the listener
  last,              \* what the step just taken did, if it was a tick's
  lastFetched        \* usd of the latest token data an activity tick got

startupVars == <<token, pc, exitCode, clientUser, loginCalls, getCalls,
                 deleteCalls, putCalls, existingCommands, toDelete, registry,
                 failed, listenerAttached, scheduled>>

runVars == <<latestDevPrice, presence, username, activityTicks, usernameTicks,
             renames, fetches, events, interactions, last, lastFetched>>

vars == <<startupVars, runVars>>

NoActivity == [name |-> "", type |-> "", state |-> ""]

\* new usernames the updater can ask for
UsernameOf(price) == "DEV: $" \o ToFixed(price, PriceScale, 5)

Candidates == { UsernameOf(t.usd) : t \in TokenData }

NoStep == [op |-> "none", tokenData |-> NoData, cache |-> Null,
           presence |-> NoActivity, username |-> "", called |-> FALSE,
           threw |-> FALSE]

\* the state when the module is loaded, for a platform whose registry holds
\* one of the given lists
InitWith(registries) ==
  /\ token \in BOOLEAN
  /\ pc = "load"
  /\ exitCode = Null
  /\ clientUser = FALSE
  /\ loginCalls = 0
  /\ getCalls = 0
  /\ deleteCalls = <<>>
  /\ putCalls = <<>>
  /\ existingCommands = <<>>
  /\ toDelete = <<>>
  /\ registry \in registries
  /\ failed = ""
  /\ listenerAttached = FALSE
  /\ scheduled = {}
  /\ latestDevPrice = Null
  /\ presence = NoActivity
  /\ username = "DEV-bot"
  /\ activityTicks = 0
  /\ usernameTicks = 0
  /\ renames = [c \in Candidates |-> 0]
  /\ fetches = 0
  /\ events = 0
  /\ interactions = <<>>
  /\ last = NoStep
  /\ lastFetched = Null

Init == InitWith(SampleRegistries)

InitReconcile == InitWith(RemoteLists)

\* ----------------------------------------------------------------- startup
\* process.exit(1)
Exit1 ==
  /\ pc' = "exited"
  /\ exitCode' = 1

\* TokenMissing with the check of the token left out
TokenNeverMissing(t) == FALSE

\* index.ts 19: if (!token)
TokenMissing(t) == ~t

\* UserMissing with the check of client.user left out
UserNeverMissing(user) == FALSE

\* index.ts 94: if (!client.user)
UserMissing(user) == ~user

\* Finish without the initial run of updateDevActivity
FinishNoInitialRun ==
  /\ listenerAttached' = TRUE
  /\ scheduled' = {"activity", "username"}
  /\ activityTicks' = activityTicks
  /\ usernameTicks' = usernameTicks + 1
  /\ fetches' = fetches + 1
  /\ pc' = "running"
  /\ UNCHANGED exitCode

\* index.ts 147-155 and startDevPriceUpdateJob: attach the listener, schedule
\* both tasks, start the initial run of each up to its await of the fetch
Finish ==
  /\ listenerAttached' = TRUE
  /\ scheduled' = {"activity", "username"}
  /\ activityTicks' = activityTicks + 1
  /\ usernameTicks' = usernameTicks + 1
  /\ fetches' = fetches + 2
  /\ pc' = "running"
  /\ UNCHANGED exitCode

\* index.ts 125-145, then Finish when nothing is to be registered
Register(existing) ==
  IF NewCommandsToRegister(existing) # <<>>
  THEN /\ putCalls' = Append(putCalls, PutBody(existing))
       /\ pc' = "put"
       /\ UNCHANGED <<exitCode, listenerAttached, scheduled, activityTicks,
                      usernameTicks, fetches>>
  ELSE /\ Finish
       /\ UNCHANGED putCalls

\* index.ts 118-121: the loop over commandsToDelete, up to its next await
DeleteLoop(existing, rest) ==
  IF rest # <<>>
  THEN /\ deleteCalls' = Append(deleteCalls, Head(rest).id)
       /\ pc' = "delete"
       /\ UNCHANGED <<exitCode, putCalls, listenerAttached, scheduled,
                      activityTicks, usernameTicks, fetches>>
  ELSE /\ Register(existing)
       /\ UNCHANGED deleteCalls

\* index.ts 16-28 and 163-164, main up to the await of client.login
Load ==
  /\ pc = "load"
  /\ failed' = IF ~token THEN "token" ELSE failed
  /\ IF TokenMissing(token)
     THEN /\ Exit1
          /\ UNCHANGED loginCalls
     ELSE /\ loginCalls' = loginCalls + 1
          /\ pc' = "login"
          /\ UNCHANGED exitCode
  /\ UNCHANGED <<token, clientUser, getCalls, deleteCalls, putCalls,
                 existingCommands, toDelete, registry, listenerAttached,
                 scheduled, runVars>>

\* client.login settles: index.ts 53-54 and 92-108
LoginDone(ok, user) ==
  /\ pc = "login"
  /\ failed' = IF ~ok THEN "login" ELSE IF ~user THEN "user" ELSE failed
  /\ IF ~ok
     THEN /\ Exit1
          /\ UNCHANGED <<clientUser, getCalls>>
     ELSE /\ clientUser' = user
          /\ IF UserMissing(user)
             THEN /\ Exit1
                  /\ UNCHANGED getCalls
             ELSE /\ getCalls' = getCalls + 1
                  /\ pc' = "get"
                  /\ UNCHANGED exitCode
  /\ UNCHANGED <<token, loginCalls, deleteCalls, putCalls, existingCommands,
                 toDelete, registry, listenerAttached, scheduled, runVars>>

\* rest.get settles: index.ts 106-121 and on
GetDone(ok) ==
  /\ pc = "get"
  /\ failed' = IF ~ok THEN "get" ELSE failed
  /\ IF ~ok
     THEN /\ Exit1
          /\ UNCHANGED <<existingCommands, toDelete, deleteCalls, putCalls,
                         listenerAttached, scheduled, activityTicks,
                         usernameTicks, fetches>>
     ELSE /\ existingCommands' = registry
          /\ toDelete' = CommandsToDelete(registry)
          /\ DeleteLoop(registry, CommandsToDelete(registry))
  /\ last' = NoStep
  /\ UNCHANGED <<token, clientUser, loginCalls, getCalls, registry,
                 latestDevPrice, presence, username, renames, events,
                 interactions, lastFetched>>

\* the platform's registry without the command of the given id
Without(list, id) ==
  LET Other(c) == c.id # id
  IN  SelectSeq(list, Other)

\* rest.delete settles: index.ts 119-121 and on
DeleteDone(ok) ==
  /\ pc = "delete"
  /\ failed' = IF ~ok THEN "delete" ELSE failed
  /\ IF ~ok
     THEN /\ Exit1
          /\ UNCHANGED <<toDelete, registry, deleteCalls, putCalls,
                         listenerAttached, scheduled, activityTicks,
                         usernameTicks, fetches>>
     ELSE /\ registry' = Without(registry, Head(toDelete).id)
          /\ toDelete' = Tail(toDelete)
          /\ DeleteLoop(existingCommands, Tail(toDelete))
  /\ last' = NoStep
  /\ UNCHANGED <<token, clientUser, loginCalls, getCalls, existingCommands,
                 latestDevPrice, presence, username, renames, events,
                 interactions, lastFetched>>

\* the registry after a bulk overwrite with the given body: a command that
\* was registered under the same name keeps its id, a new one gets a new id
Overwritten(list, body) ==
  [i \in 1..Len(body) |->
     [id |-> IF \E j \in 1..Len(list) : list[j].name = body[i].name
             THEN (CHOOSE c \in {list[j] : j \in 1..Len(list)} :
                     c.name = body[i].name).id
             ELSE MaxRemote + i,
      name |-> body[i].name]]

\* PutDone with a rejected registration not stopping the startup
PutDoneSwallowed(ok) ==
  /\ pc = "put"
  /\ failed' = IF ~ok THEN "put" ELSE failed
  /\ registry' = IF ok THEN Overwritten(registry, putCalls[Len(putCalls)])
                 ELSE registry
  /\ Finish
  /\ last' = NoStep
  /\ UNCHANGED <<token, clientUser, loginCalls, getCalls, deleteCalls,
                 putCalls, existingCommands, toDelete, latestDevPrice,
                 presence, username, renames, events, interactions,
                 lastFetched>>

\* rest.put settles: index.ts 132-155
PutDone(ok) ==
  /\ pc = "put"
  /\ failed' = IF ~ok THEN "put" ELSE failed
  /\ IF ~ok
     THEN /\ Exit1
          /\ UNCHANGED <<registry, listenerAttached, scheduled, activityTicks,
                         usernameTicks, fetches>>
     ELSE /\ registry' = Overwritten(registry, putCalls[Len(putCalls)])
          /\ Finish
  /\ last' = NoStep
  /\ UNCHANGED <<token, clientUser, loginCalls, getCalls, deleteCalls,
                 putCalls, existingCommands, toDelete, latestDevPrice,
                 presence, username, renames, events, interactions,
                 lastFetched>>

\* ------------------------------------------------------------------- ticks
\* stand-ins for the chart emoji of the description
UpEmoji == "[chart-increasing]"
DownEmoji == "[chart-decreasing]"

\* formatNumber of utils/coinGecko: a dollar volume with a magnitude suffix
FormatNumber(n) ==
  IF n >= Pow10(9) THEN ToFixed(n, 9, 2) \o "B"
  ELSE IF n >= Pow10(6) THEN ToFixed(n, 6, 2) \o "M"
  ELSE IF n >= Pow10(3) THEN ToFixed(n, 3, 2) \o "K"
  ELSE ToFixed(n * 100, 2, 2)

\* priceUpdateJob.ts 25
Title(price) == "DEV $" \o ToFixed(price, PriceScale, 5)

\* ChangeEmoji with > for >=
ChangeEmojiStrict(change24h) == IF change24h > 0 THEN UpEmoji ELSE DownEmoji

\* priceUpdateJob.ts 26
ChangeEmoji(change24h) == IF change24h >= 0 THEN UpEmoji ELSE DownEmoji

\* priceUpdateJob.ts 27
Description(change24h, volume24h) ==
  "24h: " \o ChangeEmoji(change24h) \o ToFixed(change24h, ChangeScale, 2)
    \o "% | Vol: $" \o FormatNumber(volume24h)

\* Activity with the title made from the cache as it was before the tick
ActivityFromCache(tokenData) ==
  [name |-> Title(IF latestDevPrice # Null THEN latestDevPrice
                  ELSE tokenData.usd),
   type |-> "Watching",
   state |-> Description(OrZero(tokenData, "usd_24h_change"),
                         OrZero(tokenData, "usd_24h_vol"))]

\* priceUpdateJob.ts 28-31: what setActivity shows
Activity(tokenData) ==
  [name |-> Title(tokenData.usd),
   type |-> "Watching",
   state |-> Description(OrZero(tokenData, "usd_24h_change"),
                         OrZero(tokenData, "usd_24h_vol"))]

\* CachedPrice with the price cached as it is displayed, rounded to 5 places
CachedPriceRounded(tokenData, cache) ==
  IF tokenData # NoData
  THEN RoundTo(tokenData.usd, PriceScale, 5) * Pow10(PriceScale - 5)
  ELSE cache

\* CachedPrice with the result of the fetch stored whatever it is
CachedPriceOrNull(tokenData, cache) ==
  IF tokenData # NoData THEN tokenData.usd ELSE Null

\* CachedPrice that fills the cache once and keeps it
CachedPriceOnce(tokenData, cache) ==
  IF tokenData # NoData /\ cache = Null THEN tokenData.usd ELSE cache

\* priceUpdateJob.ts 15-19: the cache after the fetch of an activity tick
CachedPrice(tokenData, cache) ==
  IF tokenData # NoData THEN tokenData.usd ELSE cache

\* priceUpdateJob.ts 15, 23: the tick calls setActivity
SetsActivity(tokenData, user) == tokenData # NoData /\ user

\* SetsUsername without the comparison with the current username
SetsUsernameAlways(tokenData, user, current) ==
  /\ tokenData # NoData
  /\ user

\* priceUpdateJob.ts 62-68: the tick calls setUsername
SetsUsername(tokenData, user, current) ==
  /\ tokenData # NoData
  /\ user
  /\ current # UsernameOf(tokenData.usd)

\* TickRejects without the try / catch blocks around setActivity
TickRejectsUncaught(tokenData, user, threw) ==
  SetsActivity(tokenData, user) /\ threw

\* priceUpdateJob.ts 13, 24, 35, 51: the promise of updateDevActivity
\* rejects; it never does, a throw of setActivity is caught at line 35
TickRejects(tokenData, user, threw) == FALSE

\* CronTrigger with one callback for both tasks, which starts both ticks
CronTriggerBoth(task) ==
  /\ pc = "running"
  /\ task \in scheduled
  /\ events < MaxEvents
  /\ events' = events + 1
  /\ fetches' = fetches + 2
  /\ activityTicks' = activityTicks + 1
  /\ usernameTicks' = usernameTicks + 1
  /\ last' = NoStep
  /\ UNCHANGED <<startupVars, latestDevPrice, presence, username, renames,
                 interactions, lastFetched>>

\* a tick starts: the call of updateDevActivity or updateDevUsername up to
\* its await of fetchTokenPrice
CronTrigger(task) ==
  /\ pc = "running"
  /\ task \in scheduled
  /\ events < MaxEvents
  /\ events' = events + 1
  /\ fetches' = fetches + 1
  /\ IF task = "activity"
     THEN /\ activityTicks' = activityTicks + 1
          /\ UNCHANGED usernameTicks
     ELSE /\ usernameTicks' = usernameTicks + 1
          /\ UNCHANGED activityTicks
  /\ last' = NoStep
  /\ UNCHANGED <<startupVars, latestDevPrice, presence, username, renames,
                 interactions, lastFetched>>

\* the fetch of an activity tick settles: priceUpdateJob.ts 15-56.
\* threw: client.user.setActivity throws.  A promise of a tick that rejected
\* would be an unhandled rejection, which ends the process with code 1.
ActivityStep(tokenData, threw) ==
  /\ pc = "running"
  /\ activityTicks > 0
  /\ activityTicks' = activityTicks - 1
  /\ IF TickRejects(tokenData, clientUser, threw)
     THEN Exit1
     ELSE UNCHANGED <<pc, exitCode>>
  /\ latestDevPrice' = CachedPrice(tokenData, latestDevPrice)
  /\ presence' = IF SetsActivity(tokenData, clientUser) /\ ~threw
                 THEN Activity(tokenData) ELSE presence
  /\ last' = [op |-> "activity", tokenData |-> tokenData,
              cache |-> latestDevPrice, presence |-> presence,
              username |-> username,
              called |-> SetsActivity(tokenData, clientUser),
              threw |-> (SetsActivity(tokenData, clientUser) /\ threw)]
  /\ lastFetched' = IF tokenData # NoData THEN tokenData.usd ELSE lastFetched
  /\ UNCHANGED <<token, clientUser, loginCalls, getCalls, deleteCalls,
                 putCalls, existingCommands, toDelete, registry, failed,
                 listenerAttached, scheduled, username, usernameTicks,
                 renames, fetches, events, interactions>>

\* UsernameStep that also stores the price it fetched in the cache
UsernameStepCaches(tokenData) ==
  /\ pc = "running"
  /\ usernameTicks > 0
  /\ usernameTicks' = usernameTicks - 1
  /\ latestDevPrice' = CachedPrice(tokenData, latestDevPrice)
  /\ LET rename == SetsUsername(tokenData, clientUser, username)
     IN  /\ renames' = IF rename
                       THEN [renames EXCEPT ![UsernameOf(tokenData.usd)] = @ + 1]
                       ELSE renames
         /\ last' = [op |-> "username", tokenData |-> tokenData,
                     cache |-> latestDevPrice, presence |-> presence,
                     username |-> username, called |-> rename,
                     threw |-> FALSE]
  /\ UNCHANGED <<startupVars, presence, username, activityTicks, fetches,
                 events, interactions, lastFetched>>

\* the fetch of a username tick settles: priceUpdateJob.ts 65-76, up to the
\* await of setUsername
UsernameStep(tokenData) ==
  /\ pc = "running"
  /\ usernameTicks > 0
  /\ usernameTicks' = usernameTicks - 1
  /\ LET rename == SetsUsername(tokenData, clientUser, username)
     IN  /\ renames' = IF rename
                       THEN [renames EXCEPT ![UsernameOf(tokenData.usd)] = @ + 1]
                       ELSE renames
         /\ last' = [op |-> "username", tokenData |-> tokenData,
                     cache |-> latestDevPrice, presence |-> presence,
                     username |-> username, called |-> rename,
                     threw |-> FALSE]
  /\ UNCHANGED <<startupVars, latestDevPrice, presence, username,
                 activityTicks, fetches, events, interactions, lastFetched>>

\* a setUsername call settles: on success the client's user carries the new
\* name, a failure is caught and logged (priceUpdateJob.ts 69-82)
RenameDone(newUsername, ok) ==
  /\ pc = "running"
  /\ renames[newUsername] > 0
  /\ renames' = [renames EXCEPT ![newUsername] = @ - 1]
  /\ username' = IF ok THEN newUsername ELSE username
  /\ last' = [op |-> "renamed", tokenData |-> NoData,
              cache |-> latestDevPrice, presence |-> presence,
              username |-> username, called |-> ok, threw |-> ~ok]
  /\ UNCHANGED <<startupVars, latestDevPrice, presence, activityTicks,
                 usernameTicks, fetches, events, interactions, lastFetched>>

\* ------------------------------------------------------------ interactions
\* the interactions the gateway delivers: slash commands, and a context-menu
\* command, which is a command but not a chat-input one
Incoming ==
  { [kind |-> "chatInput", commandName |-> "ping"],
    [kind |-> "chatInput", commandName |-> "price"],
    [kind |-> "chatInput", commandName |-> "stats"],
    [kind |-> "userContextMenu", commandName |-> "price"] }

IsChatInputCommand(i) == i.kind = "chatInput"

IsCommand(i) == i.kind \in {"chatInput", "userContextMenu"}

Apology == "Sorry, I couldn't fetch the price right now. Please try again later."

\* index.ts 72
ReplyMessage(price) ==
  "**DEV Token Price:** $" \o ToFixed(price, PriceScale, 5) \o "\n"

\* Dispatch with ping taking the branch of price
DispatchPingAsPrice(i) ==
  IF ~IsCommand(i) THEN "return"
  ELSE IF i.commandName \in {"ping", "price"} THEN "fetch"
  ELSE "return"

\* Dispatch with a final else that replies
DispatchElseReplies(i) ==
  IF ~IsCommand(i) THEN "return"
  ELSE IF i.commandName = "price" THEN "fetch"
  ELSE "reply"

\* what handleInteractionCommands does before its first await:
\* "reply", "fetch" or "return" (index.ts 60-68)
Dispatch(i) ==
  IF ~IsCommand(i) THEN "return"
  ELSE IF i.commandName = "ping" THEN "reply"
  ELSE IF i.commandName = "price" THEN "fetch"
  ELSE "return"

\* the listener of interactionCreate (index.ts 147-151) and the handler up
\* to its first await
Interaction(i) ==
  /\ pc = "running"
  /\ listenerAttached
  /\ events < MaxEvents
  /\ events' = events + 1
  /\ LET does == IF IsChatInputCommand(i) THEN Dispatch(i) ELSE "return"
     IN  /\ interactions' = Append(interactions,
              [kind |-> i.kind, commandName |-> i.commandName,
               awaiting |-> (does = "fetch"),
               fetched |-> IF does = "fetch" THEN 1 ELSE 0,
               tokenData |-> NoData,
               replies |-> IF does = "reply" THEN <<"Pong!">> ELSE <<>>])
         /\ fetches' = IF does = "fetch" THEN fetches + 1 ELSE fetches
  /\ last' = NoStep
  /\ UNCHANGED <<startupVars, latestDevPrice, presence, username,
                 activityTicks, usernameTicks, renames, lastFetched>>

\* PriceReply with the cached price shown when there is one
PriceReplyCached(tokenData) ==
  IF latestDevPrice # Null THEN ReplyMessage(latestDevPrice)
  ELSE IF tokenData # NoData THEN ReplyMessage(tokenData.usd) ELSE Apology

\* index.ts 70-76: the reply to the price command
PriceReply(tokenData) ==
  IF tokenData # NoData THEN ReplyMessage(tokenData.usd) ELSE Apology

\* the fetch of a price command settles: index.ts 70-76
PriceStep(k, tokenData) ==
  /\ pc = "running"
  /\ k \in 1..Len(interactions)
  /\ interactions[k].awaiting
  /\ interactions' = [interactions EXCEPT
       ![k].awaiting = FALSE,
       ![k].tokenData = tokenData,
       ![k].replies = Append(@, PriceReply(tokenData))]
  /\ last' = NoStep
  /\ UNCHANGED <<startupVars, latestDevPrice, presence, username,
                 activityTicks, usernameTicks, renames, fetches, events,
                 lastFetched>>

\* ----------------------------------------------------------- specification
Next ==
  \/ Load
  \/ \E ok \in BOOLEAN, user \in BOOLEAN : LoginDone(ok, user)
  \/ \E ok \in BOOLEAN : GetDone(ok)
  \/ \E ok \in BOOLEAN : DeleteDone(ok)
  \/ \E ok \in BOOLEAN : PutDone(ok)
  \/ \E task \in {"activity", "username"} : CronTrigger(task)
  \/ \E tokenData \in FetchResults, threw \in BOOLEAN :
       ActivityStep(tokenData, threw)
  \/ \E tokenData \in FetchResults : UsernameStep(tokenData)
  \/ \E c \in Candidates, ok \in BOOLEAN : RenameDone(c, ok)
  \/ \E i \in Incoming : Interaction(i)
  \/ \E k \in 1..Len(interactions), tokenData \in FetchResults :
       PriceStep(k, tokenData)

Spec == Init /\ [][Next]_vars

\* the whole program on a platform where setActivity never throws
NextNoThrow ==
  \/ Load
  \/ \E ok \in BOOLEAN, user \in BOOLEAN : LoginDone(ok, user)
  \/ \E ok \in BOOLEAN : GetDone(ok)
  \/ \E ok \in BOOLEAN : DeleteDone(ok)
  \/ \E ok \in BOOLEAN : PutDone(ok)
  \/ \E task \in {"activity", "username"} : CronTrigger(task)
  \/ \E tokenData \in FetchResults : ActivityStep(tokenData, FALSE)
  \/ \E tokenData \in FetchResults : UsernameStep(tokenData)
  \/ \E c \in Candidates, ok \in BOOLEAN : RenameDone(c, ok)
  \/ \E i \in Incoming : Interaction(i)
  \/ \E k \in 1..Len(interactions), tokenData \in FetchResults :
       PriceStep(k, tokenData)

SpecNoThrow == Init /\ [][NextNoThrow]_vars

\* main() alone, from any registry of up to MaxRemote commands
NextReconcile ==
  \/ Load
  \/ \E ok \in BOOLEAN, user \in BOOLEAN : LoginDone(ok, user)
  \/ \E ok \in BOOLEAN : GetDone(ok)
  \/ \E ok \in BOOLEAN : DeleteDone(ok)
  \/ \E ok \in BOOLEAN : PutDone(ok)

SpecReconcile == InitReconcile /\ [][NextReconcile]_vars

\* ------------------------------------------------------------------ claims
\* priceUpdateJob.ts 147-149
getLatestDevPrice == latestDevPrice

\* C1: when an activity tick whose fetch returned token data completes,
\* getLatestDevPrice() is exactly the usd field of that data, whether or not
\* setActivity was called and whether or not it threw.
C1_CacheIsFetchedPrice ==
  (last.op = "activity" /\ last.tokenData # NoData)
    => getLatestDevPrice = last.tokenData.usd

\* an activity tick got a price that toFixed(5) rounds, replaced another
\* price in the cache with it, and its setActivity call threw
C1_Witness ==
  /\ last.op = "activity"
  /\ last.tokenData # NoData
  /\ last.tokenData.usd = 1237
  /\ last.threw
  /\ last.cache \notin {Null, 1237}
  /\ getLatestDevPrice = 1237

LocalNames == { commandsData[i].name : i \in 1..Len(commandsData) }

\* the calls of rest.delete issued for the command of the given id
Deletions(id) == Cardinality({ k \in 1..Len(deleteCalls) : deleteCalls[k] = id })

\* every command the registry returned under a name that is not local has
\* been deleted exactly once, and no other command has been deleted
UnusedDeletedOnce ==
  /\ \A i \in 1..Len(existingCommands) :
       Deletions(existingCommands[i].id) =
         IF existingCommands[i].name \in LocalNames THEN 0 ELSE 1
  /\ \A k \in 1..Len(deleteCalls) :
       \E i \in 1..Len(existingCommands) : existingCommands[i].id = deleteCalls[k]

\* some local command is not among the commands the registry returned
SomeLocalMissing ==
  \E n \in LocalNames :
    \A i \in 1..Len(existingCommands) : existingCommands[i].name # n

\* C4, as stated: when the reconciliation has run, every remote command with
\* a name that is not local has been deleted exactly once, and no body sent
\* to the registry carries a local command that was already present remotely.
C4_NoPresentCommandResent ==
  pc = "running" =>
    /\ UnusedDeletedOnce
    /\ \A k \in 1..Len(putCalls) : \A j \in 1..Len(putCalls[k]) :
         \A i \in 1..Len(existingCommands) :
           existingCommands[i].name # putCalls[k][j].name

\* C4, amended: at no time is a command deleted twice or a local command
\* deleted; when the reconciliation has run, every remote command with a name
\* that is not local has been deleted exactly once; if no local command was
\* missing remotely nothing is sent, and if one was, a single PUT carries the
\* whole local list, the commands already present included.
C4_ReconcileSendsWholeList ==
  /\ \A k \in 1..Len(deleteCalls) : Deletions(deleteCalls[k]) = 1
  /\ \A i \in 1..Len(existingCommands) :
       existingCommands[i].name \in LocalNames
         => Deletions(existingCommands[i].id) = 0
  /\ pc = "running" =>
       /\ UnusedDeletedOnce
       /\ putCalls = IF SomeLocalMissing THEN <<commandsData>> ELSE <<>>

\* the registry held two unused commands and ping: both unused ones were
\* deleted, and the PUT for the missing price carried ping as well
C4_Witness ==
  /\ pc = "running"
  /\ Len(existingCommands) = 3
  /\ Len(deleteCalls) = 2
  /\ \E i \in 1..3 : existingCommands[i].name = "ping"
  /\ putCalls = <<commandsData>>

\* C6: with DISCORD_TOKEN unset the process does nothing but exit with code
\* 1: no login, no registry call, no listener, no scheduled task, no fetch.
C6_NoTokenNoContact ==
  ~token =>
    /\ \/ pc = "load" /\ exitCode = Null
       \/ pc = "exited" /\ exitCode = 1 /\ failed = "token"
    /\ loginCalls = 0
    /\ getCalls = 0
    /\ deleteCalls = <<>>
    /\ putCalls = <<>>
    /\ ~listenerAttached
    /\ scheduled = {}
    /\ fetches = 0
    /\ activityTicks = 0 /\ usernameTicks = 0
    /\ interactions = <<>>

\* the process has exited for want of a token
C6_Witness ==
  /\ ~token
  /\ pc = "exited"
  /\ exitCode = 1
  /\ loginCalls = 0

\* C7: once a startup step has failed (login, client.user, GET, DELETE or
\* PUT) the process has exited with code 1, with no listener attached, no
\* task scheduled, no tick started and no fetch issued; and an exited process
\* takes no further step.
C7_StartupFailureIsFatal ==
  /\ failed # "" =>
       /\ pc = "exited"
       /\ exitCode = 1
       /\ ~listenerAttached
       /\ scheduled = {}
       /\ activityTicks = 0 /\ usernameTicks = 0
       /\ fetches = 0
       /\ interactions = <<>>
       /\ last = NoStep
  /\ pc = "exited" => failed # ""
  /\ pc = "exited" => ~ENABLED Next

\* the PUT failed after a DELETE had succeeded, and the process has exited
C7_Witness ==
  /\ failed = "put"
  /\ pc = "exited"
  /\ exitCode = 1
  /\ deleteCalls # <<>>
  /\ putCalls # <<>>

\* C5: a step of a username tick issues a setUsername call only for a new
\* username that differs from client.user.username as that step reads it; a
\* tick that finds the username a rename has set equal to its own issues no
\* call.
C5_NoRenameToCurrentName ==
  /\ []((last.op = "username" /\ last.called)
          => UsernameOf(last.tokenData.usd) # last.username)
  /\ [][\A c \in Candidates : renames'[c] > renames[c] => username # c]_vars
  /\ [][(/\ last'.op = "username"
         /\ last'.tokenData # NoData
         /\ UsernameOf(last'.tokenData.usd) = username)
          => renames' = renames]_vars

\* after a rename to the name of 123.45 has completed, a later username tick
\* fetched 123.45 again and issued no rename
C5_Witness ==
  /\ last.op = "username"
  /\ last.tokenData # NoData
  /\ last.tokenData.usd = 123450000
  /\ last.username = "DEV: $123.45000"
  /\ username = "DEV: $123.45000"
  /\ ~last.called
  /\ \A c \in Candidates : renames[c] = 0

\* C8: the handler of a price command issues one fetch; until the fetch
\* settles it has not replied, and then it has replied once: with the label
\* and the fetched price to 5 decimal places, or with the apology when the
\* fetch returned null.  The cache plays no part.
C8_PriceReplyFromFreshFetch ==
  \A k \in 1..Len(interactions) :
    LET x == interactions[k]
        expected ==
          IF x.tokenData = NoData
          THEN "Sorry, I couldn't fetch the price right now. Please try again later."
          ELSE IF x.tokenData.usd = 123450000
          THEN "**DEV Token Price:** $123.45000\n"
          ELSE IF x.tokenData.usd = 1237 THEN "**DEV Token Price:** $0.00124\n"
          ELSE IF x.tokenData.usd = 1241 THEN "**DEV Token Price:** $0.00124\n"
          ELSE ""
    IN  (x.kind = "chatInput" /\ x.commandName = "price")
          => /\ x.fetched = 1
             /\ x.replies = IF x.awaiting THEN <<>> ELSE <<expected>>

\* a price command was answered with 123.45000 while the cache held another
\* price, and another one with the apology
C8_Witness ==
  /\ latestDevPrice = 1241
  /\ Len(interactions) = 2
  /\ interactions[1].replies = <<"**DEV Token Price:** $123.45000\n">>
  /\ interactions[2].tokenData = NoData
  /\ Len(interactions[2].replies) = 1

\* C9: the handler of a ping command has replied once, with Pong!, and has
\* issued no fetch, whatever the cache holds and whatever is in flight.
C9_PingRepliesPong ==
  \A k \in 1..Len(interactions) :
    (interactions[k].kind = "chatInput" /\ interactions[k].commandName = "ping")
      => /\ interactions[k].replies = <<"Pong!">>
         /\ interactions[k].fetched = 0
         /\ ~interactions[k].awaiting

\* a ping was answered while the cache held a price and an activity tick and
\* a username tick were awaiting their fetch
C9_Witness ==
  /\ Len(interactions) = 1
  /\ interactions[1].kind = "chatInput"
  /\ interactions[1].commandName = "ping"
  /\ interactions[1].replies = <<"Pong!">>
  /\ latestDevPrice # Null
  /\ activityTicks > 0
  /\ usernameTicks > 0

\* C10: an interaction with a command name other than ping and price gets
\* no reply and no fetch, and the step that handles it leaves the cache, the
\* presence, the username, the pending renames and the count of fetches as
\* they are.
C10_UnknownCommandIgnored ==
  /\ [](\A k \in 1..Len(interactions) :
          interactions[k].commandName \notin {"ping", "price"}
            => /\ interactions[k].replies = <<>>
               /\ interactions[k].fetched = 0
               /\ ~interactions[k].awaiting)
  /\ [][(/\ Len(interactions') > Len(interactions)
         /\ interactions'[Len(interactions')].commandName \notin {"ping", "price"})
          => /\ latestDevPrice' = latestDevPrice
             /\ presence' = presence
             /\ username' = username
             /\ renames' = renames
             /\ fetches' = fetches]_vars

\* a stats command was delivered while a price was cached and shown, and it
\* has no reply
C10_Witness ==
  /\ Len(interactions) >= 1
  /\ interactions[Len(interactions)].commandName = "stats"
  /\ interactions[Len(interactions)].replies = <<>>
  /\ latestDevPrice # Null
  /\ presence # NoActivity

\* C11: when setActivity throws in an activity tick, the tick completes all
\* the same: the cache holds the price the tick wrote, the presence is the
\* one shown before, the process runs on with both tasks scheduled, and the
\* next trigger of the activity task (while the run has one left) starts a
\* tick.  A running process never stops and never loses a task.
C11_ActivityErrorIsCaught ==
  /\ []((last.op = "activity" /\ last.threw)
          => /\ latestDevPrice = last.tokenData.usd
             /\ presence = last.presence
             /\ pc = "running"
             /\ exitCode = Null
             /\ scheduled = {"activity", "username"}
             /\ (events < MaxEvents => ENABLED CronTrigger("activity")))
  /\ [][pc = "running" => (pc' = "running" /\ scheduled' = scheduled)]_vars

\* setActivity threw in a tick that had fetched 123.45: the cache holds
\* 123.45, nothing is shown, the process runs, and the tick a cron trigger
\* started awaits its fetch
C11_Witness ==
  /\ last.op = "activity"
  /\ last.threw
  /\ last.tokenData.usd = 123450000
  /\ latestDevPrice = 123450000
  /\ presence = NoActivity
  /\ pc = "running"
  /\ activityTicks = 1
  /\ events = 1

\* C12: the step that starts the scheduler leaves one activity tick in
\* flight, with the activity task scheduled and no cron trigger delivered
\* yet; before that step no tick is in flight and nothing is shown; and every
\* trigger of the activity task starts one more tick.
C12_InitialTickAtStart ==
  /\ [](pc # "running"
          => (activityTicks = 0 /\ presence = NoActivity /\ events = 0))
  /\ [][(pc # "running" /\ pc' = "running")
          => /\ activityTicks' = 1
             /\ "activity" \in scheduled'
             /\ events' = 0]_vars
  /\ [][(/\ events' = events + 1
         /\ interactions' = interactions
         /\ usernameTicks' = usernameTicks)
          => activityTicks' = activityTicks + 1]_vars

\* the initial tick has set the presence and no trigger has been delivered
C12_Witness ==
  /\ pc = "running"
  /\ events = 0
  /\ activityTicks = 0
  /\ presence.name = "DEV $123.45000"
  /\ latestDevPrice = 123450000

\* C13: when an activity tick has set the presence, the state string it
\* shows carries the up symbol if the 24h change of the token data is >= 0
\* and the down symbol if it is < 0; a change of 0 and a missing change
\* field both give the up symbol.
C13_DirectionFollowsSign ==
  (last.op = "activity" /\ last.called /\ ~last.threw)
    => LET t == last.tokenData
           change == IF "usd_24h_change" \in DOMAIN t
                     THEN t.usd_24h_change ELSE 0
           volume == IF "usd_24h_vol" \in DOMAIN t THEN t.usd_24h_vol ELSE 0
           symbol == IF change >= 0 THEN "[chart-increasing]"
                     ELSE "[chart-decreasing]"
       IN  presence.state =
             "24h: " \o symbol \o ToFixed(change, ChangeScale, 2)
               \o "% | Vol: $" \o FormatNumber(volume)

\* a tick whose token data has a change of exactly 0 replaced a presence
\* with the down symbol by one with the up symbol
C13_Witness ==
  /\ last.op = "activity"
  /\ last.called
  /\ ~last.threw
  /\ "usd_24h_change" \in DOMAIN last.tokenData
  /\ last.tokenData.usd_24h_change = 0
  /\ last.presence.state = "24h: [chart-decreasing]-1.26% | Vol: $0.00"
  /\ presence.state = "24h: [chart-increasing]0.00% | Vol: $2.50K"

\* C14: only the step of an activity tick writes the cache.  A step of a
\* username tick and the settling of a rename leave it as it was, also when
\* the tick fetched token data; so does every step that delivers or answers
\* an interaction; and until the scheduler is started it is null.
C14_OnlyActivityTickWritesCache ==
  /\ [](last.op \in {"username", "renamed"} => latestDevPrice = last.cache)
  /\ [][interactions' # interactions => latestDevPrice' = latestDevPrice]_vars
  /\ [](pc # "running" => latestDevPrice = Null)

\* a username tick fetched 0.001237 while the cache held 123.45, and the
\* cache still holds 123.45
C14_Witness ==
  /\ last.op = "username"
  /\ last.tokenData # NoData
  /\ last.tokenData.usd = 1237
  /\ last.called
  /\ last.cache = 123450000
  /\ latestDevPrice = 123450000

RECURSIVE PendingIn(_)
\* the setUsername calls awaited for the names of the given set
PendingIn(names) ==
  IF names = {} THEN 0
  ELSE LET c == CHOOSE x \in names : TRUE
       IN  renames[c] + PendingIn(names \ {c})

\* the username ticks in flight: awaiting their fetch or their rename
UsernameInFlight == usernameTicks + PendingIn(Candidates)

\* the cron triggers delivered
Triggers == events - Len(interactions)

\* C15, as stated: at no time are two activity ticks in flight, nor two
\* username ticks.
C15_TicksNeverOverlap ==
  /\ activityTicks <= 1
  /\ UsernameInFlight <= 1

\* C15, amended: a tick starts only when the scheduler starts (one of each
\* timer) or at a cron trigger, and nothing keeps a trigger from starting a
\* tick while an earlier one is in flight: until a trigger is delivered at
\* most one tick of each timer is in flight, and at any time the ticks in
\* flight of one timer are at most one more than the triggers delivered, and
\* those of both timers at most two more.
C15_OverlapOnlyByTrigger ==
  /\ pc # "running" => (activityTicks = 0 /\ UsernameInFlight = 0)
  /\ activityTicks <= 1 + Triggers
  /\ UsernameInFlight <= 1 + Triggers
  /\ activityTicks + UsernameInFlight <= 2 + Triggers

\* the initial activity tick and the one of a cron trigger both await their
\* fetch
C15_Witness ==
  /\ pc = "running"
  /\ Triggers = 1
  /\ activityTicks = 2

\* C16: when the reconciliation has run without a failed call, the names
\* registered on the platform are exactly ping and price, whatever the
\* registry held before; and a reconciliation of that registry would delete
\* nothing and register nothing.
C16_ReconcileIsIdempotent ==
  pc = "running" =>
    /\ { registry[i].name : i \in 1..Len(registry) } = {"ping", "price"}
    /\ CommandsToDelete(registry) = <<>>
    /\ NewCommandsToRegister(registry) = <<>>

\* the registry held three unused commands and no local one: all three were
\* deleted, both local commands were registered
C16_Witness ==
  /\ pc = "running"
  /\ Len(existingCommands) = 3
  /\ \A i \in 1..3 : existingCommands[i].name = "old"
  /\ Len(deleteCalls) = 3
  /\ Len(putCalls) = 1
  /\ Len(registry) = 2

\* C17: on a platform where setActivity never throws, in every state in
\* which client.user is available and the cache holds a price, the title
\* shown is the one of the price in the cache, to 5 decimal places, however
\* the steps of overlapping ticks interleave.
C17_TitleShowsCachedPrice ==
  (clientUser /\ latestDevPrice # Null)
    => presence.name =
         IF latestDevPrice = 123450000 THEN "DEV $123.45000"
         ELSE IF latestDevPrice \in {1237, 1241} THEN "DEV $0.00124"
         ELSE ""

\* of two overlapping ticks started by triggers one has replaced the price
\* 123.45 of the initial tick, in the cache and in the title, and the other
\* still awaits its fetch
C17_Witness ==
  /\ last.op = "activity"
  /\ last.cache = 123450000
  /\ last.presence.name = "DEV $123.45000"
  /\ latestDevPrice = 1237
  /\ presence.name = "DEV $0.00124"
  /\ activityTicks = 1

\* the listener is attached or a task is scheduled
Started == listenerAttached \/ scheduled # {}

\* C18: the listener is attached and the tasks are scheduled only once the
\* login has succeeded with a user, the registry has been read, every DELETE
\* has settled and the registration, when one was needed, has settled, none
\* of them rejected; and until then no price is fetched, no interaction is
\* answered, the presence and the username are untouched and no rename is
\* issued.
C18_StartupOrdering ==
  /\ Started =>
       /\ listenerAttached /\ scheduled = {"activity", "username"}
       /\ token /\ loginCalls = 1 /\ clientUser /\ getCalls = 1
       /\ failed = "" /\ exitCode = Null
       /\ toDelete = <<>>
       /\ Len(deleteCalls) = Len(CommandsToDelete(existingCommands))
       /\ Len(putCalls) =
            IF NewCommandsToRegister(existingCommands) # <<>> THEN 1 ELSE 0
       /\ CommandsToDelete(registry) = <<>>
       /\ NewCommandsToRegister(registry) = <<>>
  /\ ~Started =>
       /\ fetches = 0 /\ events = 0 /\ interactions = <<>>
       /\ activityTicks = 0 /\ usernameTicks = 0
       /\ \A c \in Candidates : renames[c] = 0
       /\ presence = NoActivity /\ username = "DEV-bot"
       /\ latestDevPrice = Null /\ last = NoStep

\* started after one DELETE and one registration have settled, then the
\* presence was set and a ping answered
C18_Witness ==
  /\ Started
  /\ Len(deleteCalls) = 1 /\ Len(putCalls) = 1
  /\ existingCommands # registry
  /\ presence # NoActivity
  /\ Len(interactions) = 1 /\ interactions[1].replies = <<"Pong!">>

\* C19: no two setUsername calls that carry the same new username are
\* outstanding at the same time. The code does not keep this: the username
\* is compared before the await of setUsername and changes only when the
\* call settles, so a second tick that fetches the same price in between
\* issues the same rename again.
C19_NoDuplicateRename == \A c \in Candidates : renames[c] <= 1

====
